---- MODULE Spec2Model ----
(***************************************************************************)
(* Model of the AWS Bedrock adapter (src/llm/bedrock/mod.rs): the model    *)
(* registry, the fluent builder, Clone, the lazily created client handle,  *)
(* generate() with its two remote call shapes, and stream().               *)
(*                                                                         *)
(* Encodings.  Option<T>: None is <<>> and Some(v) is <<v>>.  A model id   *)
(* is a sequence of one-character strings, so that starts_with and         *)
(* contains are computed character by character.  f32 values are written   *)
(* in tenths (7 stands for 0.7).                                           *)
(***************************************************************************)
EXTENDS Integers, Sequences, FiniteSets, TLC

None == <<>>
Some(v) == <<v>>
is_some(o) == o # <<>>
is_none(o) == o = <<>>
unwrap(o) == o[1]
unwrap_or(o, d) == IF o = <<>> THEN d ELSE o[1]

(***************************************************************************)
(* str::starts_with and str::contains on character sequences.              *)
(***************************************************************************)
starts_with(s, p) ==
    /\ Len(p) <= Len(s)
    /\ \A i \in 1..Len(p) : s[i] = p[i]

contains(s, p) ==
    \E k \in 0..(Len(s) - Len(p)) : \A i \in 1..Len(p) : s[k + i] = p[i]

(* Wire ids, one character per element (mod.rs 129-171). *)
Id_AnthropicClaudeV2 ==
    <<"a","n","t","h","r","o","p","i","c",".","c","l","a","u","d","e","-",
      "v","2">>

Id_AnthropicClaudeInstantV1 ==
    <<"a","n","t","h","r","o","p","i","c",".","c","l","a","u","d","e","-",
      "i","n","s","t","a","n","t","-","v","1">>

Id_AnthropicClaude3Sonnet ==
    <<"a","n","t","h","r","o","p","i","c",".","c","l","a","u","d","e","-",
      "3","-","s","o","n","n","e","t","-","2","0","2","4","0","2","2","9",
      "-","v","1",":","0">>

Id_AnthropicClaude3Haiku ==
    <<"a","n","t","h","r","o","p","i","c",".","c","l","a","u","d","e","-",
      "3","-","h","a","i","k","u","-","2","0","2","4","0","3","0","7","-",
      "v","1",":","0">>

Id_AnthropicClaude3Opus ==
    <<"a","n","t","h","r","o","p","i","c",".","c","l","a","u","d","e","-",
      "3","-","o","p","u","s","-","2","0","2","4","0","2","2","9","-","v",
      "1",":","0">>

Id_AnthropicClaude35Haiku ==
    <<"a","n","t","h","r","o","p","i","c",".","c","l","a","u","d","e","-",
      "3","-","5","-","h","a","i","k","u","-","2","0","2","4","1","0","2",
      "2","-","v","1",":","0">>

Id_AnthropicClaude4Sonnet ==
    <<"a","n","t","h","r","o","p","i","c",".","c","l","a","u","d","e","-",
      "s","o","n","n","e","t","-","4","-","2","0","2","5","0","5","1","4",
      "-","v","1",":","0">>

Id_AnthropicClaude45Haiku ==
    <<"a","n","t","h","r","o","p","i","c",".","c","l","a","u","d","e","-",
      "h","a","i","k","u","-","4","-","5","-","2","0","2","5","1","0","0",
      "1","-","v","1",":","0">>

Id_AnthropicClaude41Opus ==
    <<"a","n","t","h","r","o","p","i","c",".","c","l","a","u","d","e","-",
      "o","p","u","s","-","4","-","1","-","2","0","2","5","0","8","0","5",
      "-","v","1",":","0">>

Id_AnthropicClaude45Opus ==
    <<"a","n","t","h","r","o","p","i","c",".","c","l","a","u","d","e","-",
      "o","p","u","s","-","4","-","5","-","2","0","2","5","1","1","0","1",
      "-","v","1",":","0">>

Id_AnthropicClaude45Sonnet ==
    <<"a","n","t","h","r","o","p","i","c",".","c","l","a","u","d","e","-",
      "s","o","n","n","e","t","-","4","-","5","-","2","0","2","5","0","9",
      "2","9","-","v","1",":","0">>

Id_AI21Jurassic2Mid ==
    <<"a","i","2","1",".","j","2","-","m","i","d","-","v","1">>

Id_AI21Jurassic2Ultra ==
    <<"a","i","2","1",".","j","2","-","u","l","t","r","a","-","v","1">>

Id_AmazonTitanTextExpress ==
    <<"a","m","a","z","o","n",".","t","i","t","a","n","-","t","e","x","t",
      "-","e","x","p","r","e","s","s","-","v","1">>

Id_AmazonTitanTextLite ==
    <<"a","m","a","z","o","n",".","t","i","t","a","n","-","t","e","x","t",
      "-","l","i","t","e","-","v","1">>

Id_CohereCommand ==
    <<"c","o","h","e","r","e",".","c","o","m","m","a","n","d","-","t","e",
      "x","t","-","v","1","4">>

Id_CohereCommandLight ==
    <<"c","o","h","e","r","e",".","c","o","m","m","a","n","d","-","l","i",
      "g","h","t","-","t","e","x","t","-","v","1","4">>

Id_MetaLlama2Chat13B ==
    <<"m","e","t","a",".","l","l","a","m","a","2","-","1","3","b","-","c",
      "h","a","t","-","v","1">>

Id_MetaLlama2Chat70B ==
    <<"m","e","t","a",".","l","l","a","m","a","2","-","7","0","b","-","c",
      "h","a","t","-","v","1">>

Id_MyCustomModel ==
    <<"m","y","-","c","u","s","t","o","m","-","m","o","d","e","l">>

Id_ClaudeV21 ==
    <<"a","n","t","h","r","o","p","i","c",".","c","l","a","u","d","e","-",
      "v","2",":","1">>

Id_Claude37Sonnet ==
    <<"a","n","t","h","r","o","p","i","c",".","c","l","a","u","d","e","-",
      "3","-","7","-","s","o","n","n","e","t","-","2","0","2","5","0","2",
      "1","9","-","v","1",":","0">>

Id_Llama3 ==
    <<"m","e","t","a",".","l","l","a","m","a","3","-","8","b","-","i","n",
      "s","t","r","u","c","t","-","v","1",":","0">>

Id_Empty ==
    <<>>

Pat_Claude3 ==
    <<"c","l","a","u","d","e","-","3","-">>

Pat_Claude35 ==
    <<"c","l","a","u","d","e","-","3","-","5","-">>

Pat_Claude4 ==
    <<"c","l","a","u","d","e","-","4","-">>

Pre_Anthropic ==
    <<"a","n","t","h","r","o","p","i","c",".">>

Pre_AI21 ==
    <<"a","i","2","1",".">>

Pre_Amazon ==
    <<"a","m","a","z","o","n",".">>

Pre_Cohere ==
    <<"c","o","h","e","r","e",".">>

Pre_Meta ==
    <<"m","e","t","a",".">>

Id_Claude4Opus ==
    <<"a","n","t","h","r","o","p","i","c",".","c","l","a","u","d","e","-",
      "4","-","o","p","u","s">>

(***************************************************************************)
(* enum BedrockModel.  A model is [variant, id]; id is the String carried  *)
(* by Custom and empty for the named variants.                             *)
(***************************************************************************)
Named(v) == [variant |-> v, id |-> <<>>]
Custom(id) == [variant |-> "Custom", id |-> id]

NamedVariants ==
    { "AnthropicClaudeV2", "AnthropicClaudeInstantV1",
      "AnthropicClaude3Sonnet", "AnthropicClaude3Haiku",
      "AnthropicClaude3Opus", "AnthropicClaude35Haiku",
      "AnthropicClaude4Sonnet", "AnthropicClaude45Haiku",
      "AnthropicClaude41Opus", "AnthropicClaude45Opus",
      "AnthropicClaude45Sonnet", "AI21Jurassic2Mid", "AI21Jurassic2Ultra",
      "AmazonTitanTextExpress", "AmazonTitanTextLite", "CohereCommand",
      "CohereCommandLight", "MetaLlama2Chat13B", "MetaLlama2Chat70B" }

NamedModels == { Named(v) : v \in NamedVariants }

(* model_id that puts the default provider prefix before a Custom id. *)
model_id_prefixes_custom(m) ==
    CASE m.variant = "AnthropicClaudeV2" -> Id_AnthropicClaudeV2
      [] m.variant = "AnthropicClaudeInstantV1" -> Id_AnthropicClaudeInstantV1
      [] m.variant = "AnthropicClaude3Sonnet" -> Id_AnthropicClaude3Sonnet
      [] m.variant = "AnthropicClaude3Haiku" -> Id_AnthropicClaude3Haiku
      [] m.variant = "AnthropicClaude3Opus" -> Id_AnthropicClaude3Opus
      [] m.variant = "AnthropicClaude35Haiku" -> Id_AnthropicClaude35Haiku
      [] m.variant = "AnthropicClaude4Sonnet" -> Id_AnthropicClaude4Sonnet
      [] m.variant = "AnthropicClaude45Haiku" -> Id_AnthropicClaude45Haiku
      [] m.variant = "AnthropicClaude41Opus" -> Id_AnthropicClaude41Opus
      [] m.variant = "AnthropicClaude45Opus" -> Id_AnthropicClaude45Opus
      [] m.variant = "AnthropicClaude45Sonnet" -> Id_AnthropicClaude45Sonnet
      [] m.variant = "AI21Jurassic2Mid" -> Id_AI21Jurassic2Mid
      [] m.variant = "AI21Jurassic2Ultra" -> Id_AI21Jurassic2Ultra
      [] m.variant = "AmazonTitanTextExpress" -> Id_AmazonTitanTextExpress
      [] m.variant = "AmazonTitanTextLite" -> Id_AmazonTitanTextLite
      [] m.variant = "CohereCommand" -> Id_CohereCommand
      [] m.variant = "CohereCommandLight" -> Id_CohereCommandLight
      [] m.variant = "MetaLlama2Chat13B" -> Id_MetaLlama2Chat13B
      [] m.variant = "MetaLlama2Chat70B" -> Id_MetaLlama2Chat70B
      [] m.variant = "Custom" -> Pre_Anthropic \o m.id

(* BedrockModel::model_id *)
model_id(m) ==
    CASE m.variant = "AnthropicClaudeV2" -> Id_AnthropicClaudeV2
      [] m.variant = "AnthropicClaudeInstantV1" -> Id_AnthropicClaudeInstantV1
      [] m.variant = "AnthropicClaude3Sonnet" -> Id_AnthropicClaude3Sonnet
      [] m.variant = "AnthropicClaude3Haiku" -> Id_AnthropicClaude3Haiku
      [] m.variant = "AnthropicClaude3Opus" -> Id_AnthropicClaude3Opus
      [] m.variant = "AnthropicClaude35Haiku" -> Id_AnthropicClaude35Haiku
      [] m.variant = "AnthropicClaude4Sonnet" -> Id_AnthropicClaude4Sonnet
      [] m.variant = "AnthropicClaude45Haiku" -> Id_AnthropicClaude45Haiku
      [] m.variant = "AnthropicClaude41Opus" -> Id_AnthropicClaude41Opus
      [] m.variant = "AnthropicClaude45Opus" -> Id_AnthropicClaude45Opus
      [] m.variant = "AnthropicClaude45Sonnet" -> Id_AnthropicClaude45Sonnet
      [] m.variant = "AI21Jurassic2Mid" -> Id_AI21Jurassic2Mid
      [] m.variant = "AI21Jurassic2Ultra" -> Id_AI21Jurassic2Ultra
      [] m.variant = "AmazonTitanTextExpress" -> Id_AmazonTitanTextExpress
      [] m.variant = "AmazonTitanTextLite" -> Id_AmazonTitanTextLite
      [] m.variant = "CohereCommand" -> Id_CohereCommand
      [] m.variant = "CohereCommandLight" -> Id_CohereCommandLight
      [] m.variant = "MetaLlama2Chat13B" -> Id_MetaLlama2Chat13B
      [] m.variant = "MetaLlama2Chat70B" -> Id_MetaLlama2Chat70B
      [] m.variant = "Custom" -> m.id

(* provider derived from the wire id prefix alone, without the fallback. *)
provider_without_fallback(m) ==
    LET id == model_id(m) IN
    IF starts_with(id, Pre_Anthropic) THEN "anthropic"
    ELSE IF starts_with(id, Pre_AI21) THEN "ai21"
    ELSE IF starts_with(id, Pre_Amazon) THEN "amazon"
    ELSE IF starts_with(id, Pre_Cohere) THEN "cohere"
    ELSE IF starts_with(id, Pre_Meta) THEN "meta"
    ELSE "unknown"

(* BedrockModel::provider *)
provider(m) ==
    CASE m.variant \in { "AnthropicClaudeV2", "AnthropicClaudeInstantV1",
                         "AnthropicClaude3Sonnet", "AnthropicClaude3Haiku",
                         "AnthropicClaude3Opus", "AnthropicClaude35Haiku",
                         "AnthropicClaude4Sonnet", "AnthropicClaude45Haiku",
                         "AnthropicClaude41Opus", "AnthropicClaude45Opus",
                         "AnthropicClaude45Sonnet" } -> "anthropic"
      [] m.variant \in { "AI21Jurassic2Mid", "AI21Jurassic2Ultra" } -> "ai21"
      [] m.variant \in { "AmazonTitanTextExpress", "AmazonTitanTextLite" }
            -> "amazon"
      [] m.variant \in { "CohereCommand", "CohereCommandLight" } -> "cohere"
      [] m.variant \in { "MetaLlama2Chat13B", "MetaLlama2Chat70B" } -> "meta"
      [] m.variant = "Custom" ->
            IF starts_with(m.id, Pre_Anthropic) THEN "anthropic"
            ELSE IF starts_with(m.id, Pre_AI21) THEN "ai21"
            ELSE IF starts_with(m.id, Pre_Amazon) THEN "amazon"
            ELSE IF starts_with(m.id, Pre_Cohere) THEN "cohere"
            ELSE IF starts_with(m.id, Pre_Meta) THEN "meta"
            ELSE "anthropic"

(* impl Default for BedrockModel *)
DefaultModel == Named("AnthropicClaude3Sonnet")

(* Bedrock::requires_converse_api *)
requires_converse_api(b) ==
    LET m == b.config.model IN
    CASE m.variant \in { "AnthropicClaude3Sonnet", "AnthropicClaude3Haiku",
                         "AnthropicClaude3Opus", "AnthropicClaude35Haiku",
                         "AnthropicClaude4Sonnet", "AnthropicClaude45Haiku",
                         "AnthropicClaude41Opus", "AnthropicClaude45Opus",
                         "AnthropicClaude45Sonnet" } -> TRUE
      [] m.variant = "Custom" ->
            \/ contains(m.id, Pat_Claude3)
            \/ contains(m.id, Pat_Claude35)
            \/ contains(m.id, Pat_Claude4)
      [] OTHER -> FALSE

(***************************************************************************)
(* struct BedrockConfig, struct Bedrock, the builder and Clone.            *)
(***************************************************************************)
(* The configuration #[derive(Default)] would give: every option absent. *)
BedrockConfig_derived_default ==
    [ region         |-> None,
      model          |-> DefaultModel,
      temperature    |-> None,
      max_tokens     |-> None,
      top_p          |-> None,
      top_k          |-> None,
      stop_sequences |-> <<>>,
      model_kwargs   |-> {} ]

(* impl Default for BedrockConfig *)
BedrockConfig_default ==
    [ region         |-> Some("us-west-2"),
      model          |-> DefaultModel,
      temperature    |-> Some(7),
      max_tokens     |-> Some(512),
      top_p          |-> None,
      top_k          |-> None,
      stop_sequences |-> <<>>,
      model_kwargs   |-> {} ]

(* Bedrock::new, impl Default for Bedrock *)
new == [ client |-> None, config |-> BedrockConfig_default ]

(* with_region that resets the handle but forgets to store the region. *)
with_region_keeps_region(b, region) == [ b EXCEPT !.client = None ]

with_region(b, region) ==
    [ b EXCEPT !.config.region = Some(region), !.client = None ]

with_model(b, model) == [ b EXCEPT !.config.model = model ]

with_temperature(b, temperature) ==
    [ b EXCEPT !.config.temperature = Some(temperature) ]

with_max_tokens(b, max_tokens) ==
    [ b EXCEPT !.config.max_tokens = Some(max_tokens) ]

with_top_p(b, top_p) == [ b EXCEPT !.config.top_p = Some(top_p) ]

with_top_k(b, top_k) == [ b EXCEPT !.config.top_k = Some(top_k) ]

(* with_stop_sequence that puts the new sequence in front. *)
with_stop_sequence_prepends(b, stop) ==
    [ b EXCEPT !.config.stop_sequences = << stop >> \o @ ]

with_stop_sequence(b, stop) ==
    [ b EXCEPT !.config.stop_sequences = Append(@, stop) ]

with_model_kwargs(b, kwargs) == [ b EXCEPT !.config.model_kwargs = kwargs ]

(* A clone that starts from the default configuration. *)
clone_default_config(b) == [ client |-> None, config |-> BedrockConfig_default ]

(* impl Clone for Bedrock *)
clone(b) == [ client |-> None, config |-> b.config ]

(* get_client handing out one process-wide handle per region. *)
get_client_shared(b, fresh) ==
    IF is_none(b.client)
    THEN [ b EXCEPT !.client =
             Some([ id |-> 1,
                    region |-> unwrap_or(b.config.region, "us-east-1") ]) ]
    ELSE b

(* Bedrock::get_client: the handle is created only when none is held; it   *)
(* is bound to the configured region (us-east-1 when the region is absent).*)
(* fresh is the identity of the handle BedrockClient::new would create.    *)
get_client(b, fresh) ==
    IF is_none(b.client)
    THEN [ b EXCEPT !.client =
             Some([ id |-> fresh,
                    region |-> unwrap_or(b.config.region, "us-east-1") ]) ]
    ELSE b

(***************************************************************************)
(* Messages (crate::schemas::Message): [message_type, content].            *)
(***************************************************************************)
Msg(t, c) == [ message_type |-> t, content |-> c ]

(* A conversion that sends tool messages as assistant turns. *)
converse_message_tool_as_assistant(msg) ==
    [ role    |-> CASE msg.message_type = "HumanMessage" -> "user"
                    [] msg.message_type = "AIMessage" -> "assistant"
                    [] msg.message_type = "ToolMessage" -> "assistant",
      content |-> msg.content ]

(* One arm of the match in messages_to_converse_format: the Converse       *)
(* message built for a non-system message.                                 *)
converse_message(msg) ==
    [ role    |-> CASE msg.message_type = "HumanMessage" -> "user"
                    [] msg.message_type = "AIMessage" -> "assistant"
                    [] msg.message_type = "ToolMessage" -> "user",
      content |-> msg.content ]

(* Bedrock::messages_to_converse_format: (system_prompt, converse_messages)*)
(* after the loop has consumed messages.                                   *)
RECURSIVE messages_to_converse_format(_)
messages_to_converse_format(messages) ==
    IF messages = <<>>
    THEN [ system_prompt |-> None, converse_messages |-> <<>> ]
    ELSE LET n    == Len(messages)
             msg  == messages[n]
             prev == messages_to_converse_format(SubSeq(messages, 1, n - 1))
         IN  IF msg.message_type = "SystemMessage"
             THEN [ prev EXCEPT !.system_prompt = Some(msg.content) ]
             ELSE [ prev EXCEPT !.converse_messages =
                                    Append(@, converse_message(msg)) ]

(***************************************************************************)
(* Legacy codec: format_prompt, build_request_body, parse_response.        *)
(* Prompts are character sequences.  A JSON object is a function from its  *)
(* keys to values; a JSON document received from the service is            *)
(* [valid |-> FALSE] (bytes that are not JSON) or [valid |-> TRUE, json].  *)
(***************************************************************************)
HumanMarker == <<"H","u","m","a","n",":">>
NlNlHumanMarker == <<"\n","\n","H","u","m","a","n",":">>
HumanPrefix == <<"\n","\n","H","u","m","a","n",":"," ">>
AssistantSuffix ==
    <<"\n","\n","A","s","s","i","s","t","a","n","t",":">>

(* format_prompt that wraps every anthropic prompt, prefixed or not. *)
format_prompt_always_wraps(b, prompt) ==
    IF provider(b.config.model) = "anthropic"
    THEN HumanPrefix \o prompt \o AssistantSuffix
    ELSE prompt

(* format_prompt that applies the Human/Assistant wrapping for every      *)
(* provider.                                                               *)
format_prompt_wraps_all(b, prompt) ==
    IF starts_with(prompt, HumanMarker)
       \/ starts_with(prompt, NlNlHumanMarker)
    THEN prompt
    ELSE HumanPrefix \o prompt \o AssistantSuffix

(* Bedrock::format_prompt *)
format_prompt(b, prompt) ==
    IF provider(b.config.model) = "anthropic"
    THEN IF starts_with(prompt, HumanMarker)
            \/ starts_with(prompt, NlNlHumanMarker)
         THEN prompt
         ELSE HumanPrefix \o prompt \o AssistantSuffix
    ELSE prompt

EmptyObject == [ k \in {} |-> 0 ]
Field(k, v) == [ x \in {k} |-> v ]
(* An optional field that is sent as null when it is not configured. *)
OptField_null_when_absent(k, o) ==
    Field(k, IF is_some(o) THEN unwrap(o) ELSE "null")

OptField(k, o) == IF is_some(o) THEN Field(k, unwrap(o)) ELSE EmptyObject

(* build_request_body without the provider dispatch: the anthropic         *)
(* request for every model.                                                *)
build_request_body_anthropic_schema(b, prompt) ==
    [ ok |-> TRUE,
      body |->
        Field("prompt", format_prompt(b, prompt))
        @@ Field("max_tokens_to_sample", unwrap_or(b.config.max_tokens, 512))
        @@ OptField("temperature", b.config.temperature)
        @@ OptField("top_p", b.config.top_p)
        @@ OptField("top_k", b.config.top_k)
        @@ (IF b.config.stop_sequences # <<>>
            THEN Field("stop_sequences", b.config.stop_sequences)
            ELSE EmptyObject) ]

(* Bedrock::build_request_body: [ok |-> TRUE, body] or [ok |-> FALSE,      *)
(* error] (BedrockError::InvalidModel).                                    *)
build_request_body(b, prompt) ==
    LET formatted_prompt == format_prompt(b, prompt)
        cfg == b.config
        p   == provider(cfg.model)
    IN  CASE p = "anthropic" ->
               [ ok |-> TRUE,
                 body |->
                   Field("prompt", formatted_prompt)
                   @@ Field("max_tokens_to_sample",
                            unwrap_or(cfg.max_tokens, 512))
                   @@ OptField("temperature", cfg.temperature)
                   @@ OptField("top_p", cfg.top_p)
                   @@ OptField("top_k", cfg.top_k)
                   @@ (IF cfg.stop_sequences # <<>>
                       THEN Field("stop_sequences", cfg.stop_sequences)
                       ELSE EmptyObject) ]
          [] p = "ai21" ->
               [ ok |-> TRUE,
                 body |-> [ prompt      |-> formatted_prompt,
                            maxTokens   |-> unwrap_or(cfg.max_tokens, 512),
                            temperature |-> unwrap_or(cfg.temperature, 7),
                            topP        |-> unwrap_or(cfg.top_p, 10) ] ]
          [] p = "amazon" ->
               [ ok |-> TRUE,
                 body |-> [ inputText |-> formatted_prompt,
                            textGenerationConfig |->
                              [ maxTokenCount |->
                                    unwrap_or(cfg.max_tokens, 512),
                                temperature |->
                                    unwrap_or(cfg.temperature, 7),
                                topP |-> unwrap_or(cfg.top_p, 10),
                                stopSequences |-> cfg.stop_sequences ] ] ]
          [] p = "cohere" ->
               [ ok |-> TRUE,
                 body |-> [ prompt         |-> formatted_prompt,
                            max_tokens     |-> unwrap_or(cfg.max_tokens, 512),
                            temperature    |-> unwrap_or(cfg.temperature, 7),
                            p              |-> unwrap_or(cfg.top_p, 9),
                            k              |-> unwrap_or(cfg.top_k, 0),
                            stop_sequences |-> cfg.stop_sequences ] ]
          [] p = "meta" ->
               [ ok |-> TRUE,
                 body |-> [ prompt      |-> formatted_prompt,
                            max_gen_len |-> unwrap_or(cfg.max_tokens, 512),
                            temperature |-> unwrap_or(cfg.temperature, 7),
                            top_p       |-> unwrap_or(cfg.top_p, 9) ] ]
          [] OTHER ->
               [ ok |-> FALSE,
                 error |-> [ kind |-> "InvalidModel",
                             msg  |-> <<"Unsupported model provider: ", p>> ] ]

(* serde_json::Value indexing: a missing key, or an index into a value of  *)
(* another kind, yields Null; Value::as_str is Some only for a string.     *)
JNull == [ t |-> "null" ]
JStr(s) == [ t |-> "str", v |-> s ]
JObj(f) == [ t |-> "obj", fields |-> f ]
JArr(s) == [ t |-> "arr", v |-> s ]
JNum(n) == [ t |-> "num", n |-> n ]

json_key(j, k) ==
    IF j.t = "obj" /\ k \in DOMAIN j.fields THEN j.fields[k] ELSE JNull

(* Array indexing that counts from one. *)
json_index_one_based(j, i) ==
    IF j.t = "arr" /\ i \in DOMAIN j.v THEN j.v[i] ELSE JNull

json_index(j, i) ==
    IF j.t = "arr" /\ (i + 1) \in DOMAIN j.v THEN j.v[i + 1] ELSE JNull

as_str(j) == IF j.t = "str" THEN Some(j.v) ELSE None

(* Bedrock::parse_response: [ok |-> TRUE, text] or [ok |-> FALSE, error]. *)
parse_response(b, response_body) ==
    IF ~response_body.valid
    THEN [ ok |-> FALSE,
           error |-> [ kind |-> "SerdeError", msg |-> <<"serde_json">> ] ]
    ELSE LET response_json == response_body.json
             p == provider(b.config.model)
         IN  CASE p = "anthropic" ->
                    [ ok |-> TRUE,
                      text |-> unwrap_or(
                          as_str(json_key(response_json, "completion")), "") ]
               [] p = "ai21" ->
                    [ ok |-> TRUE,
                      text |-> unwrap_or(as_str(json_key(json_key(
                          json_index(json_key(response_json, "completions"),
                                     0), "data"), "text")), "") ]
               [] p = "amazon" ->
                    [ ok |-> TRUE,
                      text |-> unwrap_or(as_str(json_key(
                          json_index(json_key(response_json, "results"), 0),
                          "outputText")), "") ]
               [] p = "cohere" ->
                    [ ok |-> TRUE,
                      text |-> unwrap_or(as_str(json_key(
                          json_index(json_key(response_json, "generations"),
                                     0), "text")), "") ]
               [] p = "meta" ->
                    [ ok |-> TRUE,
                      text |-> unwrap_or(
                          as_str(json_key(response_json, "generation")), "") ]
               [] OTHER ->
                    [ ok |-> FALSE,
                      error |-> [ kind |-> "InvalidModel",
                                  msg |-> <<"Unsupported model provider: ",
                                            p>> ] ]

(* impl fmt::Display for BedrockError, as used by e.to_string() *)
BedrockError_to_string(e) ==
    CASE e.kind = "AwsError" -> <<"AWS Error: ">> \o e.msg
      [] e.kind = "InvalidModel" -> <<"Invalid Model: ">> \o e.msg
      [] e.kind = "SerdeError" -> <<"Serialization Error: ">> \o e.msg
      [] e.kind = "InvalidRegion" -> <<"Invalid Region: ">> \o e.msg
      [] e.kind = "InvocationError" -> <<"Invocation Error: ">> \o e.msg

(* LLM::messages_to_string: the message contents, in order, as one prompt. *)
RECURSIVE messages_to_string(_)
messages_to_string(messages) ==
    IF messages = <<>> THEN <<>>
    ELSE messages[1].content \o messages_to_string(Tail(messages))

(***************************************************************************)
(* The Wikipedia tool (tools/wikipedia/wikipedia.rs).  A String is the     *)
(* sequence of its characters; a character other than E_acute takes one    *)
(* byte of UTF-8, E_acute takes two.                                       *)
(***************************************************************************)
E_acute == "U+00E9"

utf8_len(c) == IF c = E_acute THEN 2 ELSE 1

(* str::len: the length in bytes *)
RECURSIVE len(_)
len(s) == IF s = <<>> THEN 0 ELSE utf8_len(Head(s)) + len(Tail(s))

(* str::is_char_boundary *)
is_char_boundary(s, n) ==
    \E k \in 0..Len(s) : len(SubSeq(s, 1, k)) = n

(* &s[..n]: the characters of the first n bytes; the index must be a      *)
(* character boundary, otherwise the slice panics.                         *)
slice_to(s, n) ==
    IF is_char_boundary(s, n)
    THEN [ panic |-> FALSE,
           str |-> SubSeq(s, 1,
                     CHOOSE k \in 0..Len(s) : len(SubSeq(s, 1, k)) = n) ]
    ELSE [ panic |-> TRUE ]

is_whitespace(c) == c \in { " ", "\n", "\t" }

(* str::trim *)
RECURSIVE trim_start(_)
trim_start(s) ==
    IF s # <<>> /\ is_whitespace(Head(s)) THEN trim_start(Tail(s)) ELSE s

RECURSIVE trim_end(_)
trim_end(s) ==
    IF s # <<>> /\ is_whitespace(s[Len(s)])
    THEN trim_end(SubSeq(s, 1, Len(s) - 1))
    ELSE s

trim(s) == trim_end(trim_start(s))

(* [String]::join *)
RECURSIVE join(_, _)
join(parts, sep) ==
    IF parts = <<>> THEN <<>>
    ELSE IF Len(parts) = 1 THEN Head(parts)
    ELSE Head(parts) \o sep \o join(Tail(parts), sep)

(* impl Default for WikipediaQueryOptions *)
WikipediaQueryOptions_default ==
    [ top_k_results |-> 3, max_doc_content_length |-> 4000, lang |-> "en" ]

(* WikipediaQuery::new; the reqwest client holds no state of the tool. *)
WikipediaQuery_new(options) == [ options |-> options ]

(* WikipediaQuery::with_lang *)
WikipediaQuery_with_lang(lang) ==
    WikipediaQuery_new([ WikipediaQueryOptions_default EXCEPT !.lang = lang ])

(* impl Default for WikipediaQuery *)
WikipediaQuery_default == WikipediaQuery_new(WikipediaQueryOptions_default)

with_top_k_results(w, top_k) == [ w EXCEPT !.options.top_k_results = top_k ]

with_max_doc_content_length(w, max_len) ==
    [ w EXCEPT !.options.max_doc_content_length = max_len ]

get_api_url(w) == << "https://", w.options.lang, ".wikipedia.org/w/api.php" >>

(* The GET request of WikipediaQuery::search. *)
search_request(w, query) ==
    [ list |-> "search", url |-> get_api_url(w), arg |-> query,
      srlimit |-> Some(w.options.top_k_results) ]

(* The GET request of WikipediaQuery::fetch_page. *)
fetch_request(w, title) ==
    [ list |-> "extracts", url |-> get_api_url(w), arg |-> title,
      srlimit |-> None ]

PageMarker ==
    << "P", "a", "g", "e", ":", " " >>

SummaryMarker ==
    << "\n", "S", "u", "m", "m", "a", "r", "y", ":", " " >>

NoResultsMessage ==
    << "N", "o", " ", "r", "e", "s", "u", "l", "t", "s", " ", "f", "o",
       "u", "n", "d", " ", "f", "o", "r", " ", "q", "u", "e", "r", "y",
       ":", " " >>

NoContentMessage ==
    << "N", "o", " ", "p", "a", "g", "e", " ", "c", "o", "n", "t", "e",
       "n", "t", " ", "c", "o", "u", "l", "d", " ", "b", "e", " ", "r",
       "e", "t", "r", "i", "e", "v", "e", "d" >>

BlankLine == << "\n", "\n" >>

RunOk(text) == Some([ ok |-> TRUE, text |-> text ])
RunErr(msg) == Some([ ok |-> FALSE, error |-> msg ])

(* fetch_page that includes the whole extract. *)
fetch_page_without_truncation(w, title, response) ==
    IF response.status # "ok" THEN [ kind |-> "err", error |-> response.status ]
    ELSE IF response.pages = <<>>
    THEN [ kind |-> "err", error |-> "Page not found" ]
    ELSE LET page == Head(response.pages) IN
         [ kind |-> "ok",
           content |-> PageMarker \o page.title \o SummaryMarker
                       \o unwrap_or(page.extract, <<>>) ]

(* WikipediaQuery::fetch_page from the response on: an error of send() or *)
(* of the decoding is returned; the page is the first one the map's        *)
(* iteration yields.  The result is ok with the content, err, or a panic   *)
(* of the slicing.                                                         *)
fetch_page(w, title, response) ==
    IF response.status # "ok" THEN [ kind |-> "err", error |-> response.status ]
    ELSE IF response.pages = <<>>
    THEN [ kind |-> "err", error |-> "Page not found" ]
    ELSE LET page    == Head(response.pages)
             extract == unwrap_or(page.extract, <<>>)
             max     == w.options.max_doc_content_length
             cut     == slice_to(extract, max)
         IN  IF len(extract) > max
             THEN IF cut.panic
                  THEN [ kind |-> "panic" ]
                  ELSE [ kind |-> "ok",
                         content |-> PageMarker \o page.title
                                     \o SummaryMarker \o cut.str ]
             ELSE [ kind |-> "ok",
                    content |-> PageMarker \o page.title \o SummaryMarker
                                \o extract ]

JBool(b) == [ t |-> "bool", b |-> b ]

(* run that does not reject a blank query. *)
normalize_input_accepts_blank(value) ==
    IF value.t = "str" THEN [ ok |-> TRUE, query |-> value.v ]
    ELSE IF value.t = "obj"
    THEN IF is_some(as_str(json_key(value, "input")))
         THEN [ ok |-> TRUE, query |-> unwrap(as_str(json_key(value, "input"))) ]
         ELSE [ ok |-> FALSE,
                error |-> "Invalid input format: expected 'input' field" ]
    ELSE [ ok |-> FALSE,
           error |-> "Input must be a string or object with 'input' field" ]

(* WikipediaQuery::run, lines 244-256: the query of the input value, or    *)
(* the error run returns.                                                  *)
normalize_input(value) ==
    LET query ==
          IF value.t = "str" THEN Some(value.v)
          ELSE IF value.t = "obj" THEN as_str(json_key(value, "input"))
          ELSE None
    IN  IF value.t \notin { "str", "obj" }
        THEN [ ok |-> FALSE,
               error |-> "Input must be a string or object with 'input' field" ]
        ELSE IF is_none(query)
        THEN [ ok |-> FALSE,
               error |-> "Invalid input format: expected 'input' field" ]
        ELSE IF trim(unwrap(query)) = <<>>
        THEN [ ok |-> FALSE, error |-> "Query cannot be empty" ]
        ELSE [ ok |-> TRUE, query |-> unwrap(query) ]

(* run that fails when no page could be fetched. *)
finish_fails_when_empty(results) ==
    IF results = <<>> THEN RunErr("No page content could be retrieved")
    ELSE RunOk(join(results, BlankLine))

(* WikipediaQuery::run, lines 277-281. *)
finish(results) ==
    IF results = <<>> THEN RunOk(NoContentMessage)
    ELSE RunOk(join(results, BlankLine))

(***************************************************************************)
(* Bounds and the values the operations are exercised with.                *)
(***************************************************************************)
MaxCalls == 2
MaxHandles == 3
MaxStops == 2
MaxMsgs == 3
MaxPieces == 3
MaxTopK == 1
MaxDocLen == 2
MaxTitles == 2

CallIds == 1..MaxCalls

Regions == { "us-west-2", "eu-west-1" }

CustomIds ==
    { model_id(m) : m \in NamedModels }
    \cup { Id_MyCustomModel, Id_ClaudeV21, Id_Claude37Sonnet, Id_Llama3,
           Id_Empty, Id_Claude4Opus }

AllModels == NamedModels \cup { Custom(id) : id \in CustomIds }

CoreModels ==
    { Named("AnthropicClaude3Sonnet"), Named("AnthropicClaudeV2"),
      Named("AmazonTitanTextExpress") }

Hi == <<"h","i">>
Sys == <<"s","y","s">>

Contents == { Hi, Sys }
MessageTypes ==
    { "SystemMessage", "HumanMessage", "AIMessage", "ToolMessage" }
Messages == { Msg(t, c) : t \in MessageTypes, c \in Contents }

RECURSIVE SeqsUpTo(_, _)
SeqsUpTo(S, n) ==
    IF n = 0 THEN { <<>> }
    ELSE LET shorter == SeqsUpTo(S, n - 1)
         IN  shorter \cup { Append(s, x) : s \in shorter, x \in S }

MessageLists == SeqsUpTo(Messages, MaxMsgs)

ConcurrentModels ==
    { Named("AnthropicClaude3Sonnet"), Named("AnthropicClaudeV2") }

OneHuman == << Msg("HumanMessage", Hi) >>

CallMessages ==
    { OneHuman,
      << Msg("SystemMessage", Sys), Msg("HumanMessage", Hi) >> }

(* Prompts: every concatenation of up to MaxPieces of the pieces the        *)
(* formatting rule looks at, and of text it does not.                      *)
PromptPieces ==
    { <<"\n","\n">>, HumanMarker, <<" ">>, Hi, <<"H">>, AssistantSuffix }

RECURSIVE Flatten(_)
Flatten(ss) == IF ss = <<>> THEN <<>> ELSE ss[1] \o Flatten(Tail(ss))

Prompts == { Flatten(ss) : ss \in SeqsUpTo(PromptPieces, MaxPieces) }

(* One model of each provider, and Custom ids with and without a prefix.   *)
ProviderModels ==
    { Named("AnthropicClaudeV2"), Named("AI21Jurassic2Mid"),
      Named("AmazonTitanTextExpress"), Named("CohereCommand"),
      Named("MetaLlama2Chat13B"), Custom(Id_MyCustomModel),
      Custom(Id_Llama3) }

(* The values build_request_body is applied to on its own: every value of *)
(* the BedrockConfig type over the options below, the absent temperature   *)
(* and max_tokens its unwrap_or fallbacks are written for included.        *)
BuildConfigs ==
    { [ BedrockConfig_default EXCEPT
          !.model = m, !.temperature = t, !.max_tokens = mt, !.top_p = tp,
          !.top_k = tk, !.stop_sequences = ss ] :
        m \in ProviderModels, t \in { None, Some(5) },
        mt \in { None, Some(256) }, tp \in { None, Some(9) },
        tk \in { None, Some(40) },
        ss \in SeqsUpTo({ "STOP", "END" }, MaxStops) }

BuildValues == { [ client |-> None, config |-> cfg ] : cfg \in BuildConfigs }

BuildPrompts ==
    { <<>>, Hi, HumanMarker \o Hi, HumanPrefix \o Hi \o AssistantSuffix }

(* The inputs of run: strings and objects with an input string that are   *)
(* empty, blank, plain or padded, and every other kind of JSON value.      *)
Queries == { <<>>, << " " >>, << "r" >>, << " ", "r" >> }

RunInputs ==
    { JStr(q) : q \in Queries }
    \cup { JObj(Field("input", JStr(q))) : q \in { << "r" >>, << " " >> } }
    \cup { JObj(Field("input", JNum(1))), JObj(EmptyObject),
           JObj(Field("query", JStr(<< "r" >>))),
           JNum(123), JNull, JArr(<<>>), JBool(TRUE) }

(* What the search endpoint may answer: any list of titles (the tool      *)
(* asks for srlimit titles, the service decides), or a failure of send()   *)
(* or of the decoding.                                                     *)
Titles == { << "A" >>, << "B" >> }
SearchResults == SeqsUpTo(Titles, MaxTitles)

(* What the extracts endpoint may answer: a failure, no page, a page       *)
(* without extract, a page with an extract of three bytes in three         *)
(* characters or in two.                                                   *)
Extracts == { << "a", "b", "c" >>, << E_acute, "a" >> }

PageResponses ==
    { [ status |-> "send" ], [ status |-> "ok", pages |-> <<>> ] }
    \cup { [ status |-> "ok",
             pages |-> << [ title |-> << "P" >>, extract |-> e ] >> ] :
           e \in { None } \cup { Some(x) : x \in Extracts } }

UpstreamErrors == { "timeout" }
ConverseOutputs == { None, Some("Paris") }
ResponseBodies ==
    { [ valid |-> FALSE ],
      [ valid |-> TRUE, json |-> JObj(EmptyObject) ],
      [ valid |-> TRUE,
        json |-> JObj(Field("completion", JStr(" Paris."))) ],
      [ valid |-> TRUE,
        json |-> JObj(Field("results",
                   JArr(<< JObj(Field("outputText", JStr("Paris"))) >>))) ] }

(* The response bodies parse_response is applied to on its own: bytes     *)
(* that are not JSON, and JSON documents with and without each provider's  *)
(* text path, the text with surrounding blanks, empty, or of another type. *)
ResponseTexts == { " Paris. ", "Paris", "" }

DocumentsOf(v) ==
    { JObj(Field("completion", v)),
      JObj(Field("completions",
             JArr(<< JObj(Field("data", JObj(Field("text", v)))) >>))),
      JObj(Field("results", JArr(<< JObj(Field("outputText", v)) >>))),
      JObj(Field("generations", JArr(<< JObj(Field("text", v)) >>))),
      JObj(Field("generation", v)) }

ParseDocuments ==
    { JObj(EmptyObject), JNull, JArr(<<>>),
      JObj(Field("results", JArr(<<>>))),
      JObj(Field("generations", JObj(EmptyObject))),
      JObj(Field("completions", JArr(<< JObj(EmptyObject) >>))) }
    \cup UNION { DocumentsOf(JStr(t)) : t \in ResponseTexts }
    \cup DocumentsOf(JNum(42))

ParseBodies ==
    { [ valid |-> FALSE ] }
    \cup { [ valid |-> TRUE, json |-> j ] : j \in ParseDocuments }

StopModels ==
    { Named("AnthropicClaudeV2"), Named("AmazonTitanTextExpress"),
      Named("CohereCommand") }

(***************************************************************************)
(* State.                                                                  *)
(*   bedrock      the Bedrock value the caller holds                       *)
(*   cloned       Some(value returned by clone()) while clone() is the     *)
(*                last operation performed, None otherwise                 *)
(*   calls        the invocations: position, private clone, request,       *)
(*                number of remote calls issued, result                    *)
(*   handles      number of connection handles created so far              *)
(*   established  number of handles created by invocations on bedrock      *)
(*                since it was constructed or its region was last set      *)
(*   lastOp       the operation the last step belongs to, and its argument *)
(*   input,output argument and result(s) of the function a specification   *)
(*                applies on its own (messages_to_converse_format,         *)
(*                format_prompt, build_request_body, parse_response)       *)
(*   wiki         the WikipediaQuery tool and its one run(): position,     *)
(*                query, titles found, titles still to fetch, responses    *)
(*                received, pages collected, requests issued, result       *)
(***************************************************************************)
VARIABLES bedrock, cloned, calls, handles, established, lastOp, input, output,
          wiki

vars == << bedrock, cloned, calls, handles, established, lastOp, input,
           output, wiki >>

(* The tool before run() is called. *)
IdleRun(w) ==
    [ tool |-> w, pc |-> "idle", input |-> None, query |-> None,
      titles |-> None, pending |-> <<>>, responses |-> <<>>,
      results |-> <<>>, requests |-> <<>>, result |-> None ]

IdleCall ==
    [ pc |-> "idle", op |-> "none", messages |-> <<>>, self |-> None,
      bedrock |-> None, request |-> None, api |-> "none", sent |-> 0,
      failure |-> None, result |-> None ]

Ok(text) == Some([ ok |-> TRUE, generation |-> text ])
Err(kind, msg) == Some([ ok |-> FALSE, error |-> [ kind |-> kind, msg |-> msg ] ])

(* What is left of an invocation once generate/stream has returned: its    *)
(* locals are dropped, the caller holds the result.                        *)
Returned(call, result) ==
    [ call EXCEPT !.pc = "done", !.messages = <<>>, !.self = None,
                  !.bedrock = None, !.request = None, !.result = result ]

InFlight(c) == calls[c].pc \in { "get_client", "send" }
NoCallInFlight == \A c \in CallIds : ~InFlight(c)

Init ==
    /\ bedrock = new
    /\ cloned = None
    /\ calls = [ c \in CallIds |-> IdleCall ]
    /\ handles = 0
    /\ established = 0
    /\ lastOp = [ op |-> "new", arg |-> None ]
    /\ input = <<>>
    /\ output = None
    /\ wiki = IdleRun(WikipediaQuery_default)

(***************************************************************************)
(* Builder operations.  Each takes self by value, so none can run while an *)
(* invocation, which borrows the value until it returns, is in flight.     *)
(***************************************************************************)
Builder(op, arg, result) ==
    /\ NoCallInFlight
    /\ bedrock' = result
    /\ cloned' = None
    /\ established' = IF op = "with_region" THEN 0 ELSE established
    /\ lastOp' = [ op |-> op, arg |-> Some(arg) ]
    /\ UNCHANGED << calls, handles, input, output, wiki >>

Do_with_region(region) ==
    Builder("with_region", region, with_region(bedrock, region))

Do_with_model(model) ==
    Builder("with_model", model, with_model(bedrock, model))

Do_with_temperature(temperature) ==
    Builder("with_temperature", temperature,
            with_temperature(bedrock, temperature))

Do_with_max_tokens(max_tokens) ==
    Builder("with_max_tokens", max_tokens,
            with_max_tokens(bedrock, max_tokens))

Do_with_top_p(top_p) == Builder("with_top_p", top_p, with_top_p(bedrock, top_p))

Do_with_top_k(top_k) == Builder("with_top_k", top_k, with_top_k(bedrock, top_k))

Do_with_stop_sequence(stop) ==
    /\ Len(bedrock.config.stop_sequences) < MaxStops
    /\ Builder("with_stop_sequence", stop, with_stop_sequence(bedrock, stop))

Do_with_model_kwargs(kwargs) ==
    Builder("with_model_kwargs", kwargs, with_model_kwargs(bedrock, kwargs))

(* clone() borrows the value and can run at any time. *)
Do_clone ==
    /\ cloned' = Some(clone(bedrock))
    /\ lastOp' = [ op |-> "clone", arg |-> None ]
    /\ UNCHANGED << bedrock, calls, handles, established, input, output, wiki >>

(***************************************************************************)
(* generate().  Its steps are delimited by its await points: the config    *)
(* load inside get_client, and send() of the remote call.                  *)
(***************************************************************************)
(* A Converse request that also forwards the configured stop sequences. *)
converse_request_with_stops(b, messages) ==
    LET conv == messages_to_converse_format(messages) IN
    [ api      |-> "converse",
      model_id |-> model_id(b.config.model),
      system   |-> conv.system_prompt,
      messages |-> conv.converse_messages,
      inference_config |->
          [ max_tokens     |-> b.config.max_tokens,
            temperature    |-> b.config.temperature,
            top_p          |-> b.config.top_p,
            stop_sequences |-> Some(b.config.stop_sequences) ],
      additional_model_request_fields |-> None,
      body     |-> None ]

(* The Converse request built from the private clone b (mod.rs 551-582):   *)
(* model id, optional system block, messages, inference configuration.     *)
(* The fields of the request the code never sets (the stop sequences of    *)
(* the inference configuration, the additional model request fields) stay  *)
(* absent.                                                                 *)
converse_request(b, messages) ==
    LET conv == messages_to_converse_format(messages) IN
    [ api      |-> "converse",
      model_id |-> model_id(b.config.model),
      system   |-> conv.system_prompt,
      messages |-> conv.converse_messages,
      inference_config |->
          [ max_tokens     |-> b.config.max_tokens,
            temperature    |-> b.config.temperature,
            top_p          |-> b.config.top_p,
            stop_sequences |-> None ],
      additional_model_request_fields |-> None,
      body     |-> None ]

(* The invoke_model request (mod.rs 614-618) carrying the encoded body.    *)
invoke_model_request(b, body) ==
    [ api      |-> "invoke_model",
      model_id |-> model_id(b.config.model),
      system   |-> None,
      messages |-> <<>>,
      inference_config |->
          [ max_tokens |-> None, temperature |-> None, top_p |-> None,
            stop_sequences |-> None ],
      additional_model_request_fields |-> None,
      body     |-> Some(body) ]

(* generate, up to the await in get_client: self is cloned and the clone,  *)
(* which holds no handle, starts loading the AWS configuration.            *)
generate_start(c, messages) ==
    /\ ~InFlight(c)
    /\ handles + Cardinality({ d \in CallIds : calls[d].pc = "get_client" })
          < MaxHandles
    /\ calls' = [ calls EXCEPT ![c] =
                    [ IdleCall EXCEPT !.pc = "get_client",
                                      !.op = "generate",
                                      !.messages = messages,
                                      !.self = Some(bedrock),
                                      !.bedrock = Some(clone(bedrock)) ] ]
    /\ lastOp' = [ op |-> "generate", arg |-> Some(c) ]
    /\ cloned' = None
    /\ UNCHANGED << bedrock, handles, established, input, output, wiki >>

(* get_client completes on the private clone; the request is built and     *)
(* sent (converse for Claude 3+, invoke_model otherwise).  A failure of    *)
(* build_request_body returns before anything is sent.                     *)
generate_connected(c) ==
    /\ calls[c].pc = "get_client"
    /\ LET b        == get_client(unwrap(calls[c].bedrock), handles + 1)
           messages == calls[c].messages
           built    == build_request_body(b, messages_to_string(messages))
           call     == [ calls[c] EXCEPT !.bedrock = Some(b) ]
       IN  calls' = [ calls EXCEPT ![c] =
             IF requires_converse_api(b)
             THEN [ call EXCEPT !.pc = "send", !.api = "converse",
                                !.request =
                                    Some(converse_request(b, messages)),
                                !.sent = @ + 1 ]
             ELSE IF ~built.ok
             THEN Returned(call,
                    Err("OtherError", BedrockError_to_string(built.error)))
             ELSE [ call EXCEPT !.pc = "send", !.api = "invoke_model",
                                !.request =
                                    Some(invoke_model_request(b, built.body)),
                                !.sent = @ + 1 ] ]
    /\ handles' = handles + 1
    /\ established' = established + 1
    /\ lastOp' = [ op |-> "generate", arg |-> Some(c) ]
    /\ cloned' = None
    /\ UNCHANGED << bedrock, input, output, wiki >>

(* converse send() returned Ok: the text of the first content block, or    *)
(* the empty string when the response carries none.                        *)
converse_ok(c, output_text) ==
    /\ calls[c].pc = "send"
    /\ calls[c].api = "converse"
    /\ calls' = [ calls EXCEPT ![c] =
                    Returned(calls[c], Ok(unwrap_or(output_text, ""))) ]
    /\ lastOp' = [ op |-> "generate", arg |-> Some(c) ]
    /\ cloned' = None
    /\ UNCHANGED << bedrock, handles, established, input, output, wiki >>

(* invoke_model send() returned Ok: the body goes through parse_response.  *)
invoke_model_ok(c, response_body) ==
    /\ calls[c].pc = "send"
    /\ calls[c].api = "invoke_model"
    /\ LET parsed == parse_response(unwrap(calls[c].bedrock), response_body)
       IN  calls' = [ calls EXCEPT ![c] =
             Returned(calls[c],
               IF parsed.ok THEN Ok(parsed.text)
               ELSE Err("OtherError", BedrockError_to_string(parsed.error))) ]
    /\ lastOp' = [ op |-> "generate", arg |-> Some(c) ]
    /\ cloned' = None
    /\ UNCHANGED << bedrock, handles, established, input, output, wiki >>

(* send_err with one internal retry: the first failure re-issues the call. *)
send_err_retry(c, e) ==
    /\ calls[c].pc = "send"
    /\ calls' = [ calls EXCEPT ![c] =
                    IF calls[c].sent < 2
                    THEN [ calls[c] EXCEPT !.sent = @ + 1,
                                           !.failure = Some(e) ]
                    ELSE Returned([ calls[c] EXCEPT !.failure = Some(e) ],
                           Err("OtherError",
                               <<"Bedrock invocation error: ", e>>)) ]
    /\ lastOp' = [ op |-> "generate", arg |-> Some(c) ]
    /\ cloned' = None
    /\ UNCHANGED << bedrock, handles, established, input, output, wiki >>

(* send_err that swallows the failure and returns an empty text. *)
send_err_as_empty_text(c, e) ==
    /\ calls[c].pc = "send"
    /\ calls' = [ calls EXCEPT ![c] =
                    Returned([ calls[c] EXCEPT !.failure = Some(e) ], Ok("")) ]
    /\ lastOp' = [ op |-> "generate", arg |-> Some(c) ]
    /\ cloned' = None
    /\ UNCHANGED << bedrock, handles, established, input, output, wiki >>

(* send() returned Err(e), on either protocol (mod.rs 589-592, 623-626).   *)
send_err(c, e) ==
    /\ calls[c].pc = "send"
    /\ calls' = [ calls EXCEPT ![c] =
                    Returned([ calls[c] EXCEPT !.failure = Some(e) ],
                      Err("OtherError", <<"Bedrock invocation error: ", e>>)) ]
    /\ lastOp' = [ op |-> "generate", arg |-> Some(c) ]
    /\ cloned' = None
    /\ UNCHANGED << bedrock, handles, established, input, output, wiki >>

(* stream that falls back to the non-streaming invocation. *)
stream_falls_back(c, messages) ==
    /\ ~InFlight(c)
    /\ handles + Cardinality({ d \in CallIds : calls[d].pc = "get_client" })
          < MaxHandles
    /\ calls' = [ calls EXCEPT ![c] =
                    [ IdleCall EXCEPT !.pc = "get_client",
                                      !.op = "stream",
                                      !.messages = messages,
                                      !.self = Some(bedrock),
                                      !.bedrock = Some(clone(bedrock)) ] ]
    /\ lastOp' = [ op |-> "stream", arg |-> Some(c) ]
    /\ cloned' = None
    /\ UNCHANGED << bedrock, handles, established, input, output, wiki >>

(* stream(): returns the error at once. *)
stream(c, messages) ==
    /\ ~InFlight(c)
    /\ calls' = [ calls EXCEPT ![c] =
                    Returned([ IdleCall EXCEPT !.op = "stream" ],
                      Err("OtherError",
                          <<"Streaming is not yet implemented for Bedrock">>)) ]
    /\ lastOp' = [ op |-> "stream", arg |-> Some(c) ]
    /\ cloned' = None
    /\ UNCHANGED << bedrock, handles, established, input, output, wiki >>

(* messages_to_converse_format applied to the chosen message list. *)
convert ==
    /\ output = None
    /\ output' = Some(messages_to_converse_format(input))
    /\ UNCHANGED << bedrock, cloned, calls, handles, established, lastOp,
                    input, wiki >>

(* format_prompt applied to the prompt, then to its own result. *)
apply_format_prompt ==
    /\ Len(output) < 2
    /\ output' = Append(output,
                        format_prompt(bedrock,
                            IF output = <<>> THEN input
                            ELSE output[Len(output)]))
    /\ UNCHANGED << bedrock, cloned, calls, handles, established, lastOp,
                    input, wiki >>

(* build_request_body applied to the prompt. *)
apply_build_request_body ==
    /\ output = None
    /\ output' = Some(build_request_body(bedrock, input))
    /\ UNCHANGED << bedrock, cloned, calls, handles, established, lastOp,
                    input, wiki >>

(* parse_response applied to the response body. *)
apply_parse_response ==
    /\ output = None
    /\ output' = Some(parse_response(bedrock, input))
    /\ UNCHANGED << bedrock, cloned, calls, handles, established, lastOp,
                    input, wiki >>

(***************************************************************************)
(* WikipediaQuery.  The steps of run() are delimited by its await points:  *)
(* the search request and each fetch request.                              *)
(***************************************************************************)
BedrockUnchanged ==
    UNCHANGED << bedrock, cloned, calls, handles, established, lastOp, input,
                 output >>

(* The builders take the tool by value: no run() is in progress. *)
Do_with_top_k_results(top_k) ==
    /\ wiki.pc = "idle"
    /\ wiki' = [ wiki EXCEPT !.tool = with_top_k_results(@, top_k) ]
    /\ BedrockUnchanged

Do_with_max_doc_content_length(max_len) ==
    /\ wiki.pc = "idle"
    /\ wiki' = [ wiki EXCEPT !.tool = with_max_doc_content_length(@, max_len) ]
    /\ BedrockUnchanged

(* run, up to the await of the search request (lines 244-259). *)
run_start(value) ==
    /\ wiki.pc = "idle"
    /\ LET normalized == normalize_input(value) IN
       wiki' =
         IF ~normalized.ok
         THEN [ wiki EXCEPT !.pc = "done", !.input = Some(value),
                            !.result = RunErr(normalized.error) ]
         ELSE [ wiki EXCEPT !.pc = "search", !.input = Some(value),
                            !.query = Some(normalized.query),
                            !.requests = << search_request(wiki.tool,
                                               normalized.query) >> ]
    /\ BedrockUnchanged

(* search returned Ok(titles) (lines 180-185, 261-268). *)
search_ok(titles) ==
    /\ wiki.pc = "search"
    /\ wiki' =
         IF titles = <<>>
         THEN [ wiki EXCEPT !.pc = "done", !.titles = Some(titles),
                            !.result = RunOk(NoResultsMessage
                                             \o unwrap(wiki.query)) ]
         ELSE [ wiki EXCEPT !.pc = "fetch", !.titles = Some(titles),
                            !.pending = titles,
                            !.requests = Append(@,
                                fetch_request(wiki.tool, Head(titles))) ]
    /\ BedrockUnchanged

(* search returned Err: the ? of line 259 returns it from run. *)
search_err(e) ==
    /\ wiki.pc = "search"
    /\ wiki' = [ wiki EXCEPT !.pc = "done", !.result = RunErr(e) ]
    /\ BedrockUnchanged

(* A loop that returns the first fetch error from run. *)
fetch_done_aborts_on_error(response) ==
    /\ wiki.pc = "fetch"
    /\ LET title   == Head(wiki.pending)
           rest    == Tail(wiki.pending)
           fetched == fetch_page(wiki.tool, title, response)
           results == IF fetched.kind = "ok"
                      THEN Append(wiki.results, fetched.content)
                      ELSE wiki.results
           after   == [ wiki EXCEPT !.responses = Append(@, response),
                                    !.pending = rest, !.results = results ]
       IN  wiki' =
             IF fetched.kind = "panic"
             THEN [ wiki EXCEPT !.pc = "panicked",
                                !.responses = Append(@, response) ]
             ELSE IF fetched.kind = "err"
             THEN [ after EXCEPT !.pc = "done",
                                 !.result = RunErr(fetched.error) ]
             ELSE IF rest = <<>>
             THEN [ after EXCEPT !.pc = "done", !.result = finish(results) ]
             ELSE [ after EXCEPT !.requests = Append(@,
                                    fetch_request(wiki.tool, Head(rest))) ]
    /\ BedrockUnchanged

(* The response of a fetch request arrived: the rest of fetch_page and of *)
(* the loop body (lines 209-219, 267-275), then the next fetch or the end  *)
(* of run (lines 277-281).                                                 *)
fetch_done(response) ==
    /\ wiki.pc = "fetch"
    /\ LET title   == Head(wiki.pending)
           rest    == Tail(wiki.pending)
           fetched == fetch_page(wiki.tool, title, response)
           results == IF fetched.kind = "ok"
                      THEN Append(wiki.results, fetched.content)
                      ELSE wiki.results
           after   == [ wiki EXCEPT !.responses = Append(@, response),
                                    !.pending = rest, !.results = results ]
       IN  wiki' =
             IF fetched.kind = "panic"
             THEN [ wiki EXCEPT !.pc = "panicked",
                                !.responses = Append(@, response) ]
             ELSE IF rest = <<>>
             THEN [ after EXCEPT !.pc = "done", !.result = finish(results) ]
             ELSE [ after EXCEPT !.requests = Append(@,
                                    fetch_request(wiki.tool, Head(rest))) ]
    /\ BedrockUnchanged

(***************************************************************************)
(* Specifications.                                                         *)
(*   Spec          concurrent invocations on one value whose region and    *)
(*                 model the caller may change between invocations         *)
(*   SpecBuilder   every builder operation, clone, and one invocation at   *)
(*                 a time                                                  *)
(*   SpecRegistry  every model descriptor, one invocation at a time        *)
(*   SpecConverse  messages_to_converse_format on every message list       *)
(*   SpecFormat    format_prompt on every prompt, for every provider       *)
(*   SpecBuild     build_request_body on every configuration               *)
(*   SpecParse     parse_response on every response body                   *)
(*   SpecStops     with_stop_sequence in any order, then one invocation    *)
(*   SpecWiki      the Wikipedia tool: builders, then one run()            *)
(***************************************************************************)
Invoke(C, M) ==
    \/ \E c \in C, messages \in M : generate_start(c, messages)
    \/ \E c \in C : generate_connected(c)
    \/ \E c \in C, output_text \in ConverseOutputs :
           converse_ok(c, output_text)
    \/ \E c \in C, response_body \in ResponseBodies :
           invoke_model_ok(c, response_body)
    \/ \E c \in C, e \in UpstreamErrors : send_err(c, e)
    \/ \E c \in C, messages \in M : stream(c, messages)

Next ==
    \/ \E region \in Regions : Do_with_region(region)
    \/ \E model \in ConcurrentModels : Do_with_model(model)
    \/ Do_clone
    \/ Invoke(CallIds, CallMessages)

Spec == Init /\ [][Next]_vars

NextBuilder ==
    \/ \E region \in Regions : Do_with_region(region)
    \/ \E model \in CoreModels : Do_with_model(model)
    \/ \E temperature \in { 5 } : Do_with_temperature(temperature)
    \/ \E max_tokens \in { 1 } : Do_with_max_tokens(max_tokens)
    \/ \E top_p \in { 9 } : Do_with_top_p(top_p)
    \/ \E top_k \in { 40 } : Do_with_top_k(top_k)
    \/ \E stop \in { "STOP" } : Do_with_stop_sequence(stop)
    \/ \E kwargs \in { { <<"k", "v">> } } : Do_with_model_kwargs(kwargs)
    \/ Do_clone
    \/ Invoke({ 1 }, { OneHuman })

SpecBuilder == Init /\ [][NextBuilder]_vars

NextRegistry ==
    \/ \E model \in AllModels : Do_with_model(model)
    \/ Invoke({ 1 }, { OneHuman })

SpecRegistry == Init /\ [][NextRegistry]_vars

InitConverse ==
    /\ bedrock = new
    /\ cloned = None
    /\ calls = [ c \in CallIds |-> IdleCall ]
    /\ handles = 0
    /\ established = 0
    /\ lastOp = [ op |-> "new", arg |-> None ]
    /\ input \in MessageLists
    /\ output = None
    /\ wiki = IdleRun(WikipediaQuery_default)

NextConverse == convert

SpecConverse == InitConverse /\ [][NextConverse]_vars

(* The state in which one function is applied on its own: a value taken   *)
(* from B, an argument taken from I, nothing invoked yet.                  *)
InitPure(B, I) ==
    /\ bedrock \in B
    /\ cloned = None
    /\ calls = [ c \in CallIds |-> IdleCall ]
    /\ handles = 0
    /\ established = 0
    /\ lastOp = [ op |-> "new", arg |-> None ]
    /\ input \in I
    /\ output = None
    /\ wiki = IdleRun(WikipediaQuery_default)

InitFormat == InitPure({ with_model(new, m) : m \in ProviderModels }, Prompts)

NextFormat == apply_format_prompt

SpecFormat == InitFormat /\ [][NextFormat]_vars

InitBuild == InitPure(BuildValues, BuildPrompts)

NextBuild == apply_build_request_body

SpecBuild == InitBuild /\ [][NextBuild]_vars

InitParse ==
    InitPure({ with_model(new, m) : m \in ProviderModels }, ParseBodies)

NextParse == apply_parse_response

SpecParse == InitParse /\ [][NextParse]_vars

NextStops ==
    \/ \E stop \in { "STOP", "END" } : Do_with_stop_sequence(stop)
    \/ \E model \in StopModels : Do_with_model(model)
    \/ \E temperature \in { 5 } : Do_with_temperature(temperature)
    \/ Invoke({ 1 }, { OneHuman })

SpecStops == Init /\ [][NextStops]_vars

InitWiki ==
    /\ bedrock = new
    /\ cloned = None
    /\ calls = [ c \in CallIds |-> IdleCall ]
    /\ handles = 0
    /\ established = 0
    /\ lastOp = [ op |-> "new", arg |-> None ]
    /\ input = <<>>
    /\ output = None
    /\ wiki \in { IdleRun(WikipediaQuery_default),
                   IdleRun(WikipediaQuery_with_lang("fr")) }

NextWiki ==
    \/ \E top_k \in 0..MaxTopK : Do_with_top_k_results(top_k)
    \/ \E max_len \in 0..MaxDocLen : Do_with_max_doc_content_length(max_len)
    \/ \E value \in RunInputs : run_start(value)
    \/ \E titles \in SearchResults : search_ok(titles)
    \/ \E e \in { "send", "decode" } : search_err(e)
    \/ \E response \in PageResponses : fetch_done(response)

SpecWiki == InitWiki /\ [][NextWiki]_vars

(***************************************************************************)
(* Claims.                                                                 *)
(***************************************************************************)
(* The Anthropic Claude models of generation 3 or later: the named         *)
(* variants documented as Claude 3, 3.5, 4, 4.1 and 4.5 (mod.rs 89-106),   *)
(* the same models named by their wire id, and the further Claude 3.7 and  *)
(* Claude 4 ids of CustomIds.                                              *)
Gen3PlusVariants ==
    { "AnthropicClaude3Sonnet", "AnthropicClaude3Haiku",
      "AnthropicClaude3Opus", "AnthropicClaude35Haiku",
      "AnthropicClaude4Sonnet", "AnthropicClaude45Haiku",
      "AnthropicClaude41Opus", "AnthropicClaude45Opus",
      "AnthropicClaude45Sonnet" }

Gen3PlusIds ==
    { model_id(Named(v)) : v \in Gen3PlusVariants }
    \cup { Id_Claude37Sonnet, Id_Claude4Opus }

IsClaude3Plus(m) ==
    IF m.variant = "Custom" THEN m.id \in Gen3PlusIds
    ELSE m.variant \in Gen3PlusVariants

(* C1: for every model descriptor, the remote call an invocation issues is *)
(* the conversational one exactly when the model is an Anthropic Claude    *)
(* model of generation 3 or later, and the legacy one otherwise.           *)
C1_ProtocolByGeneration ==
    \A c \in CallIds :
        calls[c].pc = "send" =>
            ( calls[c].api = "converse"
              <=> IsClaude3Plus(unwrap(calls[c].bedrock).config.model) )

(* C2: once an invocation on the value has established a handle, later     *)
(* invocations with the region unchanged create no further handle.         *)
C2_HandleReused == established <= 1

OtherBuilderOps ==
    { "with_model", "with_temperature", "with_max_tokens", "with_top_p",
      "with_top_k", "with_stop_sequence", "with_model_kwargs" }

(* C3: with_region sets the region to its argument and leaves the value    *)
(* without a handle; every other builder operation leaves handle and       *)
(* region as they were; the handle an invocation then creates is a new one *)
(* bound to the region the value has at that time.                         *)
C3_RegionResetsHandle ==
    [][ /\ lastOp'.op = "with_region" =>
              /\ bedrock'.client = None
              /\ bedrock'.config.region = lastOp'.arg
        /\ lastOp'.op \in OtherBuilderOps =>
              /\ bedrock'.client = bedrock.client
              /\ bedrock'.config.region = bedrock.config.region
        /\ \A c \in CallIds :
              (calls[c].pc = "get_client" /\ calls'[c].pc = "send") =>
                  /\ handles' = handles + 1
                  /\ unwrap(calls'[c].bedrock).client =
                         Some([ id |-> handles',
                                region |-> unwrap(bedrock.config.region) ])
      ]_vars

C3_Witness ==
    /\ bedrock.config.region = Some("eu-west-1")
    /\ bedrock.config.temperature = Some(5)
    /\ \E c \in CallIds :
          /\ calls[c].pc = "send"
          /\ unwrap(unwrap(calls[c].bedrock).client).region = "eu-west-1"

(* C4: clone() returns a value with the original's configuration and no    *)
(* handle, and leaves the original as it was.                              *)
C4_CloneCopiesConfigOnly ==
    [][ lastOp'.op = "clone" =>
            /\ bedrock' = bedrock
            /\ is_some(cloned')
            /\ unwrap(cloned').config = bedrock.config
            /\ unwrap(cloned').client = None
      ]_vars

C4_Witness ==
    /\ is_some(cloned)
    /\ unwrap(cloned).config # BedrockConfig_default
    /\ unwrap(cloned).config.stop_sequences # <<>>

(* C5: concurrent invocations on one value do not interfere: while an      *)
(* invocation is in flight the shared value is what it was when the        *)
(* invocation started, every invocation works on its own clone holding its *)
(* own handle, and no step of an invocation changes the shared value.      *)
C5_NoInterference ==
    /\ [](\A c \in CallIds :
            InFlight(c) =>
                /\ calls[c].self = Some(bedrock)
                /\ unwrap(calls[c].bedrock).config = bedrock.config)
    /\ [](\A c, d \in CallIds :
            (c # d /\ calls[c].pc = "send" /\ calls[d].pc = "send") =>
                unwrap(calls[c].bedrock).client
                    # unwrap(calls[d].bedrock).client)
    /\ [][ lastOp'.op \in { "generate", "stream" } => bedrock' = bedrock ]_vars

C5_Witness ==
    \E c, d \in CallIds :
        /\ c # d
        /\ calls[c].pc = "send"
        /\ calls[d].pc = "send"
        /\ bedrock.config.region = Some("eu-west-1")

(* C6: an invocation issues at most one remote call, and one whose call    *)
(* failed has returned that failure without issuing another.               *)
C6_NoRetry ==
    \A c \in CallIds :
        /\ calls[c].sent <= 1
        /\ is_some(calls[c].failure) =>
              /\ calls[c].pc = "done"
              /\ calls[c].sent = 1
              /\ ~unwrap(calls[c].result).ok

C6_Witness ==
    \E c \in CallIds : is_some(calls[c].failure) /\ calls[c].pc = "done"

C8_StreamUnsupported ==
    [][ lastOp'.op = "stream" =>
            LET call == calls'[unwrap(lastOp'.arg)] IN
            /\ call.pc = "done"
            /\ call.sent = 0
            /\ call.api = "none"
            /\ call.result =
                   Err("OtherError",
                       <<"Streaming is not yet implemented for Bedrock">>)
            /\ handles' = handles
            /\ bedrock' = bedrock
      ]_vars

C8_Witness ==
    \E c \in CallIds :
        /\ calls[c].op = "stream"
        /\ calls[c].pc = "done"
        /\ bedrock.config.model = Named("AnthropicClaudeV2")
        /\ lastOp.op = "stream"

ContentsOf(s) == [ i \in 1..Len(s) |-> s[i].content ]
RemoveAt(s, k) == SubSeq(s, 1, k - 1) \o SubSeq(s, k + 1, Len(s))

(* C9: the conversion extracts at most one system message as the           *)
(* instruction and forwards every other message of the input, in order.    *)
C9_OneSystemRestForwarded ==
    is_some(output) =>
        LET out == unwrap(output) IN
        \/ /\ is_none(out.system_prompt)
           /\ ContentsOf(out.converse_messages) = ContentsOf(input)
        \/ \E k \in 1..Len(input) :
              /\ input[k].message_type = "SystemMessage"
              /\ out.system_prompt = Some(input[k].content)
              /\ ContentsOf(out.converse_messages)
                     = ContentsOf(RemoveAt(input, k))

RoleOf(t) ==
    CASE t = "HumanMessage" -> "user"
      [] t = "AIMessage" -> "assistant"
      [] t = "ToolMessage" -> "user"

IsNotSystem(msg) == msg.message_type # "SystemMessage"

(* C10: the forwarded messages are the non-system messages of the input,   *)
(* one for one and in order, each with its content and the role human ->   *)
(* user, ai -> assistant, tool -> user.                                    *)
C10_RoleMapping ==
    is_some(output) =>
        LET forwarded == unwrap(output).converse_messages
            kept      == SelectSeq(input, IsNotSystem)
        IN  /\ Len(forwarded) = Len(kept)
            /\ \A i \in 1..Len(kept) :
                  /\ forwarded[i].content = kept[i].content
                  /\ forwarded[i].role = RoleOf(kept[i].message_type)

C10_Witness ==
    /\ is_some(output)
    /\ Len(input) = 3
    /\ input[1].message_type = "ToolMessage"
    /\ input[2].message_type = "SystemMessage"
    /\ input[3].message_type = "AIMessage"
    /\ Len(unwrap(output).converse_messages) = 2

(* C11: a conversational request carries max_tokens, temperature and      *)
(* top_p exactly as the configuration holds them (present iff configured,  *)
(* with the configured value), and carries neither the stop sequences nor  *)
(* top_k, whatever is configured.                                          *)
C11_ConverseInferenceConfig ==
    \A c \in CallIds :
        (calls[c].pc = "send" /\ calls[c].api = "converse") =>
            LET req == unwrap(calls[c].request)
                cfg == bedrock.config
            IN  /\ req.inference_config.max_tokens = cfg.max_tokens
                /\ req.inference_config.temperature = cfg.temperature
                /\ req.inference_config.top_p = cfg.top_p
                /\ is_none(req.inference_config.stop_sequences)
                /\ DOMAIN req.inference_config =
                       { "max_tokens", "temperature", "top_p",
                         "stop_sequences" }
                /\ is_none(req.additional_model_request_fields)
                /\ is_none(req.body)

C11_Witness ==
    \E c \in CallIds :
        /\ calls[c].pc = "send"
        /\ calls[c].api = "converse"
        /\ bedrock.config.stop_sequences # <<>>
        /\ is_some(bedrock.config.top_k)
        /\ is_some(bedrock.config.top_p)
        /\ unwrap(calls[c].request).inference_config.top_p = Some(9)

PrefixTags ==
    { <<Pre_Anthropic, "anthropic">>, <<Pre_AI21, "ai21">>,
      <<Pre_Amazon, "amazon">>, <<Pre_Cohere, "cohere">>,
      <<Pre_Meta, "meta">> }

(* The provider whose request schema a legacy body follows, told by the    *)
(* field only that schema has.                                             *)
SchemaOf(body) ==
    CASE "max_tokens_to_sample" \in DOMAIN body -> "anthropic"
      [] "maxTokens" \in DOMAIN body -> "ai21"
      [] "inputText" \in DOMAIN body -> "amazon"
      [] "k" \in DOMAIN body -> "cohere"
      [] "max_gen_len" \in DOMAIN body -> "meta"
      [] OTHER -> "none"

(* C12: for a Custom id that starts with one of the five provider prefixes *)
(* provider() is that tag, for any other Custom id (the empty one too) it  *)
(* is anthropic, and the legacy request of an invocation follows the       *)
(* schema of that provider; no invocation fails for the provider.          *)
C12_CustomProvider ==
    LET m == bedrock.config.model
        expected ==
            IF \E pt \in PrefixTags : starts_with(m.id, pt[1])
            THEN (CHOOSE pt \in PrefixTags : starts_with(m.id, pt[1]))[2]
            ELSE "anthropic"
    IN  m.variant = "Custom" =>
            /\ provider(m) = expected
            /\ \A c \in CallIds :
                  /\ (calls[c].pc = "send" /\ calls[c].api = "invoke_model")
                        => SchemaOf(unwrap(unwrap(calls[c].request).body))
                               = expected
                  /\ (calls[c].pc = "done" /\ lastOp.op = "generate"
                        /\ ~unwrap(calls[c].result).ok)
                        => unwrap(calls[c].result).error.msg[1]
                               # "Invalid Model: "

C12_Witness ==
    /\ bedrock.config.model \in { Custom(Id_Llama3), Custom(Id_MyCustomModel) }
    /\ \E c \in CallIds :
          /\ calls[c].pc = "send"
          /\ calls[c].api = "invoke_model"

(* C13: the model id an invocation sends is, for Custom(id), id unchanged, *)
(* and for a named model a non-empty string that depends on the variant    *)
(* alone.                                                                  *)
C13_ModelIdSent ==
    \A c \in CallIds :
        calls[c].pc = "send" =>
            LET m    == unwrap(calls[c].bedrock).config.model
                sent == unwrap(calls[c].request).model_id
            IN  /\ m.variant = "Custom" => sent = m.id
                /\ m.variant # "Custom" =>
                      /\ sent # <<>>
                      /\ sent = model_id(Named(m.variant))

C13_Witness ==
    \E c \in CallIds :
        /\ calls[c].pc = "send"
        /\ unwrap(calls[c].bedrock).config.model = Custom(Id_ClaudeV21)
        /\ unwrap(calls[c].request).model_id = Id_ClaudeV21

ends_with(s, p) ==
    /\ Len(p) <= Len(s)
    /\ \A i \in 1..Len(p) : s[Len(s) - Len(p) + i] = p[i]

HumanPrefixed(p) ==
    starts_with(p, HumanMarker) \/ starts_with(p, NlNlHumanMarker)

(* C14: for an anthropic model, a prompt that already starts with the      *)
(* human-turn marker is returned unchanged, any other prompt comes back    *)
(* starting with "\n\nHuman: " and ending with "\n\nAssistant:", and       *)
(* formatting the result once more changes nothing.                        *)
C14_FormatIdempotent ==
    (provider(bedrock.config.model) = "anthropic" /\ output # <<>>) =>
        /\ HumanPrefixed(input) => output[1] = input
        /\ ~HumanPrefixed(input) =>
              /\ starts_with(output[1], HumanPrefix)
              /\ ends_with(output[1], AssistantSuffix)
              /\ Len(output[1]) =
                     Len(HumanPrefix) + Len(input) + Len(AssistantSuffix)
        /\ Len(output) = 2 => output[2] = output[1]

C14_Witness ==
    /\ bedrock.config.model = Named("AnthropicClaudeV2")
    /\ input = Hi
    /\ Len(output) = 2
    /\ output[2] = HumanPrefix \o Hi \o AssistantSuffix

(* C15: for a model of a provider other than anthropic the prompt field   *)
(* of the request (inputText for amazon, prompt for ai21, cohere and meta) *)
(* is the input prompt itself; for anthropic a prompt without the human    *)
(* marker goes out wrapped.                                                *)
C15_PromptUntouchedUnlessAnthropic ==
    is_some(output) =>
        LET built == unwrap(output)
            p     == provider(bedrock.config.model)
        IN  /\ built.ok
            /\ p = "amazon" => built.body.inputText = input
            /\ p \in { "ai21", "cohere", "meta" } => built.body.prompt = input
            /\ (p = "anthropic" /\ ~HumanPrefixed(input)) =>
                  built.body.prompt = HumanPrefix \o input \o AssistantSuffix

C15_Witness ==
    /\ is_some(output)
    /\ bedrock.config.model = Named("AmazonTitanTextExpress")
    /\ input = Hi
    /\ unwrap(output).body.inputText = Hi

Present(o) == o # <<>>
ValueOr(o, d) == IF o = <<>> THEN d ELSE o[1]

(* C16: the anthropic legacy request always has prompt and                 *)
(* max_tokens_to_sample (the configured max_tokens, 512 when absent), has  *)
(* temperature, top_p and top_k exactly when they are configured, with the *)
(* configured value, and has stop_sequences, equal to the configured list, *)
(* exactly when that list is not empty.                                    *)
C16_AnthropicOptionalFields ==
    (is_some(output) /\ provider(bedrock.config.model) = "anthropic") =>
        LET body == unwrap(output).body
            cfg  == bedrock.config
        IN  /\ DOMAIN body =
                   { "prompt", "max_tokens_to_sample" }
                   \cup (IF Present(cfg.temperature)
                         THEN { "temperature" } ELSE {})
                   \cup (IF Present(cfg.top_p) THEN { "top_p" } ELSE {})
                   \cup (IF Present(cfg.top_k) THEN { "top_k" } ELSE {})
                   \cup (IF Len(cfg.stop_sequences) > 0
                         THEN { "stop_sequences" } ELSE {})
            /\ body.max_tokens_to_sample = ValueOr(cfg.max_tokens, 512)
            /\ Present(cfg.temperature) =>
                  body.temperature = cfg.temperature[1]
            /\ Present(cfg.top_p) => body.top_p = cfg.top_p[1]
            /\ Present(cfg.top_k) => body.top_k = cfg.top_k[1]
            /\ Len(cfg.stop_sequences) > 0 =>
                  /\ Len(body.stop_sequences) = Len(cfg.stop_sequences)
                  /\ body.stop_sequences = cfg.stop_sequences

C16_Witness ==
    /\ is_some(output)
    /\ bedrock.config.model = Named("AnthropicClaudeV2")
    /\ bedrock.config.stop_sequences = << "STOP" >>
    /\ is_none(bedrock.config.max_tokens)
    /\ is_none(bedrock.config.temperature)
    /\ is_some(bedrock.config.top_k)
    /\ DOMAIN unwrap(output).body =
           { "prompt", "max_tokens_to_sample", "top_k", "stop_sequences" }

(* C17: the ai21, amazon, cohere and meta requests always have exactly the *)
(* fields of their schema, each with the configured value or, when the     *)
(* option is absent, its default: 512 for the maximum length, 0.7 for the  *)
(* temperature, 1.0 (ai21, amazon) or 0.9 (cohere, meta) for top-p, 0 for  *)
(* the cohere k; amazon and cohere carry the stop list also when empty.    *)
C17_FullSchemaWithDefaults ==
    is_some(output) =>
        LET body == unwrap(output).body
            cfg  == bedrock.config
            p    == provider(cfg.model)
            mt   == ValueOr(cfg.max_tokens, 512)
            t    == ValueOr(cfg.temperature, 7)
        IN  /\ p = "ai21" =>
                  /\ DOMAIN body =
                         { "prompt", "maxTokens", "temperature", "topP" }
                  /\ body.maxTokens = mt
                  /\ body.temperature = t
                  /\ body.topP = ValueOr(cfg.top_p, 10)
            /\ p = "amazon" =>
                  /\ DOMAIN body = { "inputText", "textGenerationConfig" }
                  /\ DOMAIN body.textGenerationConfig =
                         { "maxTokenCount", "temperature", "topP",
                           "stopSequences" }
                  /\ body.textGenerationConfig.maxTokenCount = mt
                  /\ body.textGenerationConfig.temperature = t
                  /\ body.textGenerationConfig.topP = ValueOr(cfg.top_p, 10)
                  /\ body.textGenerationConfig.stopSequences
                         = cfg.stop_sequences
            /\ p = "cohere" =>
                  /\ DOMAIN body =
                         { "prompt", "max_tokens", "temperature", "p", "k",
                           "stop_sequences" }
                  /\ body.max_tokens = mt
                  /\ body.temperature = t
                  /\ body.p = ValueOr(cfg.top_p, 9)
                  /\ body.k = ValueOr(cfg.top_k, 0)
                  /\ body.stop_sequences = cfg.stop_sequences
            /\ p = "meta" =>
                  /\ DOMAIN body =
                         { "prompt", "max_gen_len", "temperature", "top_p" }
                  /\ body.max_gen_len = mt
                  /\ body.temperature = t
                  /\ body.top_p = ValueOr(cfg.top_p, 9)

C17_Witness ==
    /\ is_some(output)
    /\ bedrock.config.model = Named("CohereCommand")
    /\ is_none(bedrock.config.max_tokens)
    /\ is_none(bedrock.config.temperature)
    /\ is_none(bedrock.config.top_p)
    /\ is_none(bedrock.config.top_k)
    /\ bedrock.config.stop_sequences = <<>>
    /\ unwrap(output).body.stop_sequences = <<>>
    /\ unwrap(output).body.p = 9

(* The text path of each provider's response document. *)
Key(k) == [ key |-> k ]
Index(i) == [ index |-> i ]

TextPath(p) ==
    CASE p = "anthropic" -> << Key("completion") >>
      [] p = "ai21" -> << Key("completions"), Index(0), Key("data"),
                          Key("text") >>
      [] p = "amazon" -> << Key("results"), Index(0), Key("outputText") >>
      [] p = "cohere" -> << Key("generations"), Index(0), Key("text") >>
      [] p = "meta" -> << Key("generation") >>

(* The value at a path of a document, None when the path leaves it. *)
RECURSIVE ValueAt(_, _)
ValueAt(j, path) ==
    IF path = <<>> THEN Some(j)
    ELSE LET step == Head(path) IN
         IF "key" \in DOMAIN step
         THEN IF j.t = "obj" /\ step.key \in DOMAIN j.fields
              THEN ValueAt(j.fields[step.key], Tail(path))
              ELSE None
         ELSE IF j.t = "arr" /\ Len(j.v) > step.index
              THEN ValueAt(j.v[step.index + 1], Tail(path))
              ELSE None

(* C18: parse_response returns the string found at the provider's path of  *)
(* the response document as it is; when the document is valid JSON but has *)
(* nothing at that path it succeeds with the empty string; when the body   *)
(* is not JSON it fails with the serialization error.                      *)
C18_ParseResponse ==
    is_some(output) =>
        LET r == unwrap(output) IN
        IF ~input.valid
        THEN ~r.ok /\ r.error.kind = "SerdeError"
        ELSE LET found == ValueAt(input.json,
                                  TextPath(provider(bedrock.config.model)))
             IN  /\ r.ok
                 /\ found = None => r.text = ""
                 /\ (found # None /\ found[1].t = "str") =>
                       r.text = found[1].v

C18_Witness ==
    /\ is_some(output)
    /\ bedrock.config.model = Named("AmazonTitanTextExpress")
    /\ input.valid
    /\ ValueAt(input.json, TextPath("amazon")) = Some(JStr(" Paris. "))
    /\ unwrap(output) = [ ok |-> TRUE, text |-> " Paris. " ]

(* The stop list a legacy request body carries. *)
StopsInBody(p, body) ==
    CASE p = "anthropic" ->
           IF "stop_sequences" \in DOMAIN body THEN body.stop_sequences
           ELSE <<>>
      [] p = "amazon" -> body.textGenerationConfig.stopSequences
      [] p = "cohere" -> body.stop_sequences

(* C19: every step of with_stop_sequence appends its argument to the end   *)
(* of the stop list and no other step changes the list, so the list is the *)
(* arguments in call order; the legacy request of an invocation carries    *)
(* the list in that order.                                                 *)
C19_StopSequencesInCallOrder ==
    /\ [][ IF lastOp'.op = "with_stop_sequence"
           THEN bedrock'.config.stop_sequences =
                    Append(bedrock.config.stop_sequences, lastOp'.arg[1])
           ELSE bedrock'.config.stop_sequences =
                    bedrock.config.stop_sequences ]_vars
    /\ [](\A c \in CallIds :
            (calls[c].pc = "send" /\ calls[c].api = "invoke_model") =>
                StopsInBody(provider(bedrock.config.model),
                            unwrap(unwrap(calls[c].request).body))
                    = bedrock.config.stop_sequences)

C19_Witness ==
    /\ bedrock.config.stop_sequences = << "STOP", "END" >>
    /\ bedrock.config.model = Named("CohereCommand")
    /\ calls[1].pc = "send"
    /\ unwrap(unwrap(calls[1].request).body).stop_sequences
           = << "STOP", "END" >>

(* C20: with_model_kwargs stores its argument unchanged, and an invocation *)
(* passes the stored parameters into the request: as the additional model  *)
(* request fields of a Converse request, as members of a legacy body.      *)
C20_KwargsPassedThrough ==
    /\ lastOp.op = "with_model_kwargs" =>
          bedrock.config.model_kwargs = lastOp.arg[1]
    /\ \A c \in CallIds :
          (calls[c].pc = "send" /\ bedrock.config.model_kwargs # {}) =>
              LET kwargs  == unwrap(calls[c].bedrock).config.model_kwargs
                  request == unwrap(calls[c].request)
              IN  /\ kwargs = bedrock.config.model_kwargs
                  /\ IF request.api = "converse"
                     THEN request.additional_model_request_fields
                              = Some(kwargs)
                     ELSE \A kv \in kwargs :
                              /\ kv[1] \in DOMAIN unwrap(request.body)
                              /\ unwrap(request.body)[kv[1]] = kv[2]

(***************************************************************************)
(* Claims about the Wikipedia tool.                                        *)
(***************************************************************************)
NotBlank(s) == \E i \in 1..Len(s) : s[i] \notin { " ", "\n", "\t" }

(* The string an input value carries, bare or in its input field. *)
CarriedString(value) ==
    IF value.t = "str" THEN << value.v >>
    ELSE IF value.t = "obj" /\ "input" \in DOMAIN value.fields
            /\ value.fields["input"].t = "str"
    THEN << value.fields["input"].v >>
    ELSE <<>>

WellFormed(value) ==
    CarriedString(value) # <<>> /\ NotBlank(CarriedString(value)[1])

InvalidInputErrors ==
    { "Input must be a string or object with 'input' field",
      "Invalid input format: expected 'input' field",
      "Query cannot be empty" }

(* C21: run takes its query from a bare string or from the string in the  *)
(* input field of an object; every other input, and a query that is empty  *)
(* or only whitespace, makes run fail with an invalid-input error without  *)
(* any search or fetch request having been issued.                         *)
C21_InvalidInputRejected ==
    wiki.input # <<>> =>
        LET value == wiki.input[1] IN
        IF WellFormed(value)
        THEN /\ wiki.query = CarriedString(value)
             /\ wiki.requests # <<>>
             /\ wiki.requests[1].list = "search"
             /\ wiki.requests[1].arg = CarriedString(value)[1]
        ELSE /\ wiki.pc = "done"
             /\ wiki.result # <<>>
             /\ ~wiki.result[1].ok
             /\ wiki.result[1].error \in InvalidInputErrors
             /\ wiki.requests = <<>>

C21_Witness ==
    /\ wiki.input = << JStr(<< " " >>) >>
    /\ wiki.pc = "done"
    /\ wiki.result = RunErr("Query cannot be empty")
    /\ wiki.requests = <<>>

(* C22: for a well-formed query run ends with a successful text whatever   *)
(* the search and extracts endpoints answer.                               *)
C22_RetrievalFailuresAsContent ==
    (wiki.pc = "done" /\ WellFormed(wiki.input[1])) => wiki.result[1].ok

NoResultsWords == << "N", "o", " ", "r", "e", "s", "u", "l", "t", "s" >>

(* C23: when the search finds no title run succeeds with a text that      *)
(* contains "No results" and has issued the search request only; when it   *)
(* finds titles and no page could be fetched run succeeds with the         *)
(* no-content message.                                                     *)
C23_EmptyResultMessages ==
    (wiki.pc = "done" /\ wiki.titles # <<>>) =>
        /\ wiki.titles[1] = <<>> =>
              /\ wiki.result[1].ok
              /\ contains(wiki.result[1].text, NoResultsWords)
              /\ Len(wiki.requests) = 1
              /\ wiki.requests[1].list = "search"
        /\ (wiki.titles[1] # <<>> /\ wiki.results = <<>>) =>
              /\ wiki.result[1].ok
              /\ wiki.result[1].text = NoContentMessage

C23_Witness ==
    /\ wiki.pc = "done"
    /\ wiki.titles = << << << "A" >>, << "B" >> >> >>
    /\ Len(wiki.responses) = 2
    /\ wiki.results = <<>>
    /\ wiki.result = RunOk(NoContentMessage)

(* A response from which fetch_page makes a page. *)
HasPage(response) == response.status = "ok" /\ response.pages # <<>>

(* The pages of the responses from the i-th on, each after the first one   *)
(* preceded by a blank line.                                               *)
RECURSIVE PagesFrom(_, _, _)
PagesFrom(w, i, first) ==
    IF i > Len(w.responses) THEN <<>>
    ELSE IF HasPage(w.responses[i])
    THEN (IF first THEN <<>> ELSE << "\n", "\n" >>)
         \o fetch_page(w.tool, w.titles[1][i], w.responses[i]).content
         \o PagesFrom(w, i + 1, FALSE)
    ELSE PagesFrom(w, i + 1, first)

SummaryOf(content) ==
    SubSeq(content, Len(PageMarker) + 1 + Len(SummaryMarker) + 1, Len(content))

RECURSIVE Bytes(_)
Bytes(s) ==
    IF s = <<>> THEN 0
    ELSE (IF Head(s) = E_acute THEN 2 ELSE 1) + Bytes(Tail(s))

C26_NoPanic == wiki.pc # "panicked"

PageWord == << "P", "a", "g", "e", ":" >>

Occurrences(text, word) ==
    Cardinality({ i \in 1..Len(text) :
                    /\ i + Len(word) - 1 <= Len(text)
                    /\ SubSeq(text, i, i + Len(word) - 1) = word })

(* C27: the text run returns has at most top_k_results "Page:" entries.    *)
C27_AtMostTopK ==
    (wiki.pc = "done" /\ wiki.result[1].ok) =>
        Occurrences(wiki.result[1].text, PageWord)
            <= wiki.tool.options.top_k_results

(***************************************************************************)
(* Claims about the model registry and the configuration.                  *)
(***************************************************************************)
(* C28: for a named model, the value configured with Custom of the         *)
(* model's wire id selects the same protocol and the same provider as the  *)
(* value configured with the named model.                                  *)
C28_ProtocolByWireIdOnly ==
    bedrock.config.model.variant # "Custom" =>
        LET m       == bedrock.config.model
            by_id   == Custom(model_id(m))
        IN  /\ requires_converse_api(with_model(bedrock, by_id))
                   = requires_converse_api(bedrock)
            /\ provider(by_id) = provider(m)

SupportedProviders == { "anthropic", "ai21", "amazon", "cohere", "meta" }

(* C29: the provider of the configured model, named or Custom, is one of   *)
(* the five supported tags; build_request_body and parse_response do not   *)
(* fail with InvalidModel on the value, and no invocation returns that     *)
(* error.                                                                  *)
C29_InvalidModelUnreachable ==
    /\ provider(bedrock.config.model) \in SupportedProviders
    /\ build_request_body(bedrock, Hi).ok
    /\ LET parsed == parse_response(bedrock, [ valid |-> FALSE ])
       IN  parsed.error.kind # "InvalidModel"
    /\ parse_response(bedrock,
                      [ valid |-> TRUE, json |-> JObj(EmptyObject) ]).ok
    /\ \A c \in CallIds :
          (calls[c].result # <<>> /\ ~calls[c].result[1].ok) =>
              ~starts_with(calls[c].result[1].error.msg,
                           << "Invalid Model: " >>)

C29_Witness ==
    /\ bedrock.config.model = Custom(Id_MyCustomModel)
    /\ calls[1].pc = "done"
    /\ calls[1].result # <<>>
    /\ calls[1].result[1].ok

(* C30: in the value the caller holds, in its clone and in the private     *)
(* copy of every invocation, region, temperature and max_tokens are        *)
(* present, and the handle of an invocation is bound to the configured     *)
(* region.                                                                 *)
C30_DefaultsStayPresent ==
    LET Present3(b) == /\ b.config.region # <<>>
                       /\ b.config.temperature # <<>>
                       /\ b.config.max_tokens # <<>>
    IN  /\ Present3(bedrock)
        /\ cloned # <<>> => Present3(cloned[1])
        /\ \A c \in CallIds :
              calls[c].bedrock # <<>> =>
                  /\ Present3(calls[c].bedrock[1])
                  /\ calls[c].bedrock[1].client # <<>> =>
                        calls[c].bedrock[1].client[1].region
                            = calls[c].bedrock[1].config.region[1]

C30_Witness ==
    /\ bedrock.config.region = << "eu-west-1" >>
    /\ bedrock.config.temperature = << 5 >>
    /\ bedrock.config.max_tokens = << 1 >>
    /\ bedrock.config.top_k = << 40 >>
    /\ cloned # <<>>
    /\ cloned[1].config = bedrock.config

====
